---- MODULE Spec2Model ----
(***************************************************************************)
(* Model of scripts/apply-rate-limiting.py: the policy table and its       *)
(* first-match selector, the text patch of one route file, and the batch   *)
(* loop of main() with its backup/overwrite file operations.               *)
(*                                                                         *)
(* Route paths, patterns and policy tokens are real strings; the regular   *)
(* expressions of RATE_LIMIT_MAP (literals joined by ".*") are searched    *)
(* character by character.  A file's content is a sequence of text         *)
(* fragments ("tokens"); every fragment has a concrete text, so lengths    *)
(* and the positions of the substrings the script looks for are computed   *)
(* from the text, and the 300-character window of add_rate_limit is        *)
(* measured in characters.                                                 *)
(***************************************************************************)
EXTENDS Integers, Sequences, FiniteSets, TLC

VARIABLES
    route_path,      \* get_rate_limit_config: its argument
    config,          \* get_rate_limit_config: its result ("" before the call)
    files,           \* disk: route.ts path -> content (sequence of tokens)
    backups,         \* disk: route.ts path -> <<content>> of route.ts.bak, <<>> if absent
    phase,           \* main: "idle" | "loop" | "done" | "killed" | "crashed"
    order,           \* main: sorted(route_files)
    idx,             \* main: position of the for loop in order
    pc,              \* apply_rate_limiting: "read" | "backup" | "write"
    content,         \* apply_rate_limiting: local content
    updated,         \* main: counter
    skipped,         \* main: counter
    errors,          \* main: counter
    run,             \* number of the current run of the script (1, 2, ...)
    orig,            \* history: the tree before the first run
    preRun,          \* history: the tree when the current run started
    status,          \* history: path -> message printed for it in this run
    processed,       \* history: paths handed to apply_rate_limiting this run
    raised,          \* history: files of this run whose processing raised
    wroteOver,       \* history: path -> number of times its content was overwritten
    preBak,          \* history: the backups when the current run started
    prevStatus       \* history: status of the run before the current one

selvars == <<route_path, config>>
runvars == <<files, backups, phase, order, idx, pc, content, updated, skipped,
             errors, run, orig, preRun, status, processed, raised, wroteOver,
             preBak, prevStatus>>
vars == <<route_path, config, files, backups, phase, order, idx, pc, content,
          updated, skipped, errors, run, orig, preRun, status, processed,
          raised, wroteOver, preBak, prevStatus>>

(***************************************************************************)
(* Strings.                                                                *)
(***************************************************************************)

\* s[i:i+Len(sub)] == sub (1-based i)
IsAt(s, sub, i) == /\ i >= 1
                   /\ i + Len(sub) - 1 <= Len(s)
                   /\ SubSeq(s, i, i + Len(sub) - 1) = sub

\* str.find from position `from`: the least index of an occurrence, 0 if none
Find(s, sub, from) ==
    LET hits == {i \in from..(Len(s) - Len(sub) + 1) : IsAt(s, sub, i)}
    IN  IF hits = {} THEN 0 ELSE CHOOSE i \in hits : \A j \in hits : i <= j

\* `sub in s`
Contains(s, sub) == Find(s, sub, 1) # 0

\* str.replace(old, ''): non-overlapping occurrences removed, left to right
RECURSIVE Remove(_, _)
Remove(s, old) ==
    LET i == Find(s, old, 1)
    IN  IF i = 0 THEN s
        ELSE SubSeq(s, 1, i - 1) \o Remove(SubSeq(s, i + Len(old), Len(s)), old)

(***************************************************************************)
(* Policy table and selector (lines 15-59).                                *)
(***************************************************************************)

PROJECT_ROOT == "/home/nic20/ProjetosWeb/ServiceDesk"

DEFAULT == "RATE_LIMITS.DEFAULT"

\* A pattern is the sequence of its literals, separated in the source by ".*".
RATE_LIMIT_MAP == <<
    [pattern |-> <<"/api/auth/register">>,             config |-> "RATE_LIMITS.AUTH_REGISTER"],
    [pattern |-> <<"/api/auth/login">>,                config |-> "RATE_LIMITS.AUTH_LOGIN"],
    [pattern |-> <<"/api/auth/", "password">>,         config |-> "RATE_LIMITS.AUTH_FORGOT_PASSWORD"],
    [pattern |-> <<"/api/auth/">>,                     config |-> "RATE_LIMITS.AUTH_LOGIN"],
    [pattern |-> <<"/api/ai/">>,                       config |-> "RATE_LIMITS.AI_CLASSIFY"],
    [pattern |-> <<"/api/integrations/email/send">>,   config |-> "RATE_LIMITS.EMAIL_SEND"],
    [pattern |-> <<"/api/email/send">>,                config |-> "RATE_LIMITS.EMAIL_SEND"],
    [pattern |-> <<"/api/integrations/whatsapp/send">>, config |-> "RATE_LIMITS.WHATSAPP_SEND"],
    [pattern |-> <<"/api/integrations/", "webhook">>,  config |-> "RATE_LIMITS.WEBHOOK"],
    [pattern |-> <<"/api/tickets/", "create">>,        config |-> "RATE_LIMITS.TICKET_MUTATION"],
    [pattern |-> <<"/api/tickets/", "comments">>,      config |-> "RATE_LIMITS.TICKET_COMMENT"],
    [pattern |-> <<"/api/tickets/", "attachments">>,   config |-> "RATE_LIMITS.TICKET_ATTACHMENT"],
    [pattern |-> <<"/api/tickets/">>,                  config |-> "RATE_LIMITS.TICKET_MUTATION"],
    [pattern |-> <<"/api/portal/tickets">>,            config |-> "RATE_LIMITS.TICKET_MUTATION"],
    [pattern |-> <<"/api/knowledge/", "search">>,      config |-> "RATE_LIMITS.KNOWLEDGE_SEARCH"],
    [pattern |-> <<"/api/search/">>,                   config |-> "RATE_LIMITS.SEARCH"],
    [pattern |-> <<"/api/workflows/execute">>,         config |-> "RATE_LIMITS.WORKFLOW_EXECUTE"],
    [pattern |-> <<"/api/workflows/">>,                config |-> "RATE_LIMITS.WORKFLOW_MUTATION"],
    [pattern |-> <<"/api/analytics/">>,                config |-> "RATE_LIMITS.ANALYTICS"],
    [pattern |-> <<"/api/admin/", "users">>,           config |-> "RATE_LIMITS.ADMIN_USER"],
    [pattern |-> <<"/api/admin/">>,                    config |-> "RATE_LIMITS.ADMIN_MUTATION"] >>

\* The literals of `pattern` from the k-th on occur in s, in order and without
\* overlap, the first of them at `from` or later.  The leftmost occurrence of
\* each literal leaves the most room for the rest, as in a backtracking search.
RECURSIVE SearchFrom(_, _, _, _)
SearchFrom(pattern, k, s, from) ==
    IF k > Len(pattern) THEN TRUE
    ELSE LET i == Find(s, pattern[k], from)
         IN  IF i = 0 THEN FALSE
             ELSE SearchFrom(pattern, k + 1, s, i + Len(pattern[k]))

\* re.search(pattern, s): the pattern matches somewhere in s
re_search(pattern, s) == SearchFrom(pattern, 1, s, 1)

\* A faulty ConfigFrom: the loop does not return at the first match, so the
\* last matching rule wins.
RECURSIVE ConfigLast(_, _)
ConfigLast(s, i) ==
    IF i > Len(RATE_LIMIT_MAP) THEN DEFAULT
    ELSE LET rest == ConfigLast(s, i + 1)
         IN  IF rest # DEFAULT THEN rest
             ELSE IF re_search(RATE_LIMIT_MAP[i].pattern, s) THEN RATE_LIMIT_MAP[i].config
             ELSE DEFAULT

\* The for loop of get_rate_limit_config from the i-th item of the table on.
RECURSIVE ConfigFrom(_, _)
ConfigFrom(s, i) ==
    IF i > Len(RATE_LIMIT_MAP) THEN DEFAULT
    ELSE IF re_search(RATE_LIMIT_MAP[i].pattern, s) THEN RATE_LIMIT_MAP[i].config
    ELSE ConfigFrom(s, i + 1)

get_rate_limit_config(s) == ConfigFrom(s, 1)

(***************************************************************************)
(* File contents.  A token is [k |-> kind, c |-> policy token]; c is ""    *)
(* except in a guard snippet.  Kinds a route file may hold before the      *)
(* script ever ran:                                                        *)
(*   imp    a one-line import statement (matches import_pattern)           *)
(*   hdl    a handler signature up to its first "{" (function_pattern)     *)
(*   txt    other code, with neither of the strings the script looks for   *)
(*   rlr    other code that names rateLimitResponse                        *)
(*   arl    other code that calls applyRateLimit (an older limiter)        *)
(*   mlImp  an import of the limiter module spread over several lines: it  *)
(*          holds the marker, and import_pattern matches none of its lines *)
(* Kinds only the script writes:                                           *)
(*   newImp the import of line 86;  guard  the snippet of line 103.        *)
(***************************************************************************)

InitKinds == {"imp", "hdl", "txt", "rlr", "arl", "mlImp"}

Tok(k) == [k |-> k, c |-> ""]

MARKER == "from '@/lib/rate-limit/redis-limiter'"

\* new_import, line 86
new_import ==
    "\nimport { applyRateLimit, RATE_LIMITS } from '@/lib/rate-limit/redis-limiter';"

\* rate_limit_code, line 103
rate_limit_code(cfg) ==
    "\n  // SECURITY: Rate limiting\n  const rateLimitResponse = await applyRateLimit(request, "
    \o cfg \o ");\n  if (rateLimitResponse) return rateLimitResponse;\n"

KindText ==
    [k \in InitKinds \cup {"newImp"} |->
       CASE k = "imp"    -> "import { NextRequest, NextResponse } from 'next/server';\n"
         [] k = "hdl"    -> "export async function GET(request: NextRequest) {"
         [] k = "txt"    -> "\n  const session = await getServerSession(authOptions);\n  const rows = await db.all('SELECT * FROM tickets');\n  return NextResponse.json(rows);\n}\n\n"
         [] k = "rlr"    -> "\n  const rateLimitResponse = await checkRateLimit(request);\n  if (rateLimitResponse) return rateLimitResponse;\n"
         [] k = "arl"    -> "\n  const limited = await applyRateLimit(request, 'api');\n  if (limited) return limited;\n"
         [] k = "mlImp"  -> "import {\n  applyRateLimit,\n  RATE_LIMITS\n} from '@/lib/rate-limit/redis-limiter';\n"
         [] k = "newImp" -> new_import]

AllConfigs == {RATE_LIMIT_MAP[i].config : i \in DOMAIN RATE_LIMIT_MAP} \cup {DEFAULT}

\* The end of the occurrence of `key` in `text` that ends first (0: none).
KeyEndIn(text, key) ==
    LET i == Find(text, key, 1) IN IF i = 0 THEN 0 ELSE i + Len(key) - 1

\* The least number of characters of `text` that hold 'applyRateLimit' or
\* 'rateLimitResponse' whole (0: neither occurs): what line 99 looks for.
FirstKeyEnd(text) ==
    LET a == KeyEndIn(text, "applyRateLimit")
        r == KeyEndIn(text, "rateLimitResponse")
    IN  IF a = 0 THEN r ELSE IF r = 0 THEN a ELSE IF a < r THEN a ELSE r

TextInfo(text) ==
    [len    |-> Len(text),
     keyEnd |-> FirstKeyEnd(text),
     apply  |-> Contains(text, "applyRateLimit"),
     marker |-> Contains(text, MARKER)]

KindInfo  == [k \in InitKinds \cup {"newImp"} |-> TextInfo(KindText[k])]
GuardInfo == [cfg \in AllConfigs |-> TextInfo(rate_limit_code(cfg))]

Info(t) == IF t.k = "guard" THEN GuardInfo[t.c] ELSE KindInfo[t.k]

\* import_pattern, line 79: a whole line `import ... from '...';`
IsImportLine(t) == t.k \in {"imp", "newImp"}

\* function_pattern, line 91
IsHandler(t) == t.k = "hdl"

\* `"from '@/lib/rate-limit/redis-limiter'" in content`, line 67
HasMarker(c) == \E i \in DOMAIN c : Info(c[i]).marker

\* `'applyRateLimit' in content`, line 77
HasApply(c) == \E i \in DOMAIN c : Info(c[i]).apply

\* Number of characters of c[from..to]
RECURSIVE CharLen(_, _, _)
CharLen(c, from, to) ==
    IF from > to THEN 0 ELSE Info(c[from]).len + CharLen(c, from + 1, to)

(***************************************************************************)
(* The patch of one file's content (lines 66-107, 116-118).                *)
(***************************************************************************)

WindowSize == 300

Guard(cfg) == [k |-> "guard", c |-> cfg]

Max(S) == CHOOSE m \in S : \A n \in S : n <= m

\* imports, line 80: the positions of the lines import_pattern matches
imports(c) == {i \in DOMAIN c : IsImportLine(c[i])}

\* A faulty ImportAdded: a file without an import line gets the import too,
\* at its top.
ImportAddedAnyway(c) == ~HasApply(c)

\* Lines 77 and 82: the import is added only if the content does not name
\* applyRateLimit and has an import line.
ImportAdded(c) == ~HasApply(c) /\ imports(c) # {}

\* insert_pos, lines 83-84, as a number of tokens (0: there is no import line)
insert_pos(c) == IF imports(c) = {} THEN 0 ELSE Max(imports(c))

\* Lines 77-88: the import goes right after the last import line.
InsertImport(c) ==
    IF ImportAdded(c)
    THEN SubSeq(c, 1, insert_pos(c)) \o <<Tok("newImp")>>
         \o SubSeq(c, insert_pos(c) + 1, Len(c))
    ELSE c

\* Lines 98-99: content[match.end():match.end() + 300] holds 'applyRateLimit'
\* or 'rateLimitResponse'; the match is the handler signature at position i.
WindowHasKey(c, i, size) ==
    \E j \in (i + 1)..Len(c) :
        /\ Info(c[j]).keyEnd > 0
        /\ CharLen(c, i + 1, j - 1) + Info(c[j]).keyEnd <= size

\* A faulty AlreadyGuarded: the window is never consulted.
AlreadyGuardedNever(c, i) == FALSE

\* A faulty AlreadyGuarded: a window of 50 characters, which ends before the
\* inserted snippet names rateLimitResponse.
AlreadyGuardedShort(c, i) == WindowHasKey(c, i, 50)

AlreadyGuarded(c, i) == WindowHasKey(c, i, WindowSize)

\* The handlers add_rate_limit puts a snippet in
Patched(c) == {i \in DOMAIN c : IsHandler(c[i]) /\ ~AlreadyGuarded(c, i)}

\* re.sub(function_pattern, add_rate_limit, content), line 107, from token i on
RECURSIVE SubFrom(_, _, _)
SubFrom(c, cfg, i) ==
    IF i > Len(c) THEN <<>>
    ELSE IF i \in Patched(c) THEN <<c[i], Guard(cfg)>> \o SubFrom(c, cfg, i + 1)
    ELSE <<c[i]>> \o SubFrom(c, cfg, i + 1)

\* A faulty AlreadyUpdated: the check of line 67 is left out.
AlreadyUpdatedNever(c) == FALSE

\* Line 67
AlreadyUpdated(c) == HasMarker(c)

\* apply_rate_limiting without its file operations: what it would write and
\* what it returns when no file operation raises.
Patch(c, cfg) ==
    IF AlreadyUpdated(c)
    THEN [modified |-> FALSE, content |-> c, message |-> "Already updated"]
    ELSE LET c1 == InsertImport(c)
             c2 == SubFrom(c1, cfg, 1)
             modified == ImportAdded(c) \/ Patched(c1) # {}
         IN  [modified |-> modified,
              content  |-> c2,
              message  |-> IF modified THEN "Updated (" \o cfg \o ")"
                           ELSE "No changes needed"]

(***************************************************************************)
(* Paths: the route path of a file (line 71) and sorted() (line 135).      *)
(***************************************************************************)

\* route_path, line 71
RoutePath(file_path) ==
    Remove(Remove(Remove(file_path, PROJECT_ROOT), "/app"), "/route.ts")

\* The route.ts files the tree may hold
CandidateFiles == {
    PROJECT_ROOT \o "/app/api/auth/login/route.ts",
    PROJECT_ROOT \o "/app/api/tickets/[id]/comments/route.ts",
    PROJECT_ROOT \o "/app/api/tickets/route.ts" }

\* rate_limit_config, line 72, of every candidate
rate_limit_config == [p \in CandidateFiles |-> get_rate_limit_config(RoutePath(p))]

\* Characters in code point order
CodePoints == "-./0123456789ABCDEFGHIJKLMNOPQRSTUVWXYZ[]_abcdefghijklmnopqrstuvwxyz"

Ord(ch) == Find(CodePoints, ch, 1)

\* str < str
RECURSIVE StrLess(_, _)
StrLess(a, b) ==
    IF Len(b) = 0 THEN FALSE
    ELSE IF Len(a) = 0 THEN TRUE
    ELSE IF Head(a) = Head(b) THEN StrLess(Tail(a), Tail(b))
    ELSE Ord(Head(a)) < Ord(Head(b))

\* str.split('/')
RECURSIVE Split(_)
Split(s) ==
    LET i == Find(s, "/", 1)
    IN  IF i = 0 THEN <<s>>
        ELSE <<SubSeq(s, 1, i - 1)>> \o Split(SubSeq(s, i + 1, Len(s)))

\* list < list
RECURSIVE PartsLess(_, _)
PartsLess(a, b) ==
    IF Len(b) = 0 THEN FALSE
    ELSE IF Len(a) = 0 THEN TRUE
    ELSE IF Head(a) = Head(b) THEN PartsLess(Tail(a), Tail(b))
    ELSE StrLess(Head(a), Head(b))

\* Path < Path: paths compare by their parts
PathLess == [a \in CandidateFiles |-> [b \in CandidateFiles |->
                PartsLess(Split(a), Split(b))]]

\* Insert p in a sorted sequence
RECURSIVE Insert(_, _)
Insert(p, sq) ==
    IF sq = <<>> THEN <<p>>
    ELSE IF PathLess[p][Head(sq)] THEN <<p>> \o sq
    ELSE <<Head(sq)>> \o Insert(p, Tail(sq))

\* sorted(route_files)
RECURSIVE Sorted(_)
Sorted(sq) == IF sq = <<>> THEN <<>> ELSE Insert(Head(sq), Sorted(Tail(sq)))

(***************************************************************************)
(* Bounds.                                                                 *)
(***************************************************************************)

MaxFiles == 2     \* route.ts files in the tree of Spec
MaxLen == 4       \* tokens in the file of the one-file tree of SpecFile
MaxRuns == 2      \* runs of the script over the same tree
MaxSegs == 4      \* segments of a route path given to the selector

(***************************************************************************)
(* Initial states.                                                         *)
(***************************************************************************)

InitTokens == {Tok(k) : k \in InitKinds}

\* The contents of at most n tokens a route file may have before the first run
Contents(n) == UNION {[1..k -> InitTokens] : k \in 0..n}

\* The script has not run; the tree is `fs`.
InitRun(fs) ==
    /\ files = fs
    /\ backups = [p \in DOMAIN fs |-> <<>>]
    /\ phase = "idle"
    /\ order = <<>>
    /\ idx = 0
    /\ pc = "read"
    /\ content = <<>>
    /\ updated = 0
    /\ skipped = 0
    /\ errors = 0
    /\ run = 0
    /\ orig = fs
    /\ preRun = fs
    /\ status = [p \in DOMAIN fs |-> ""]
    /\ processed = <<>>
    /\ raised = {}
    /\ wroteOver = [p \in DOMAIN fs |-> 0]
    /\ preBak = [p \in DOMAIN fs |-> <<>>]
    /\ prevStatus = [p \in DOMAIN fs |-> ""]

\* The contents of the files of a tree of several files, one of each outcome
\* of the patch of an unpatched file ("Already updated" comes with the second
\* run; SpecFile has the files that hold the marker from the start):
\*   an import and a handler: import and guard are added, the marker with them
\*   a handler and no import: the guard is added, the marker is not
\*   neither import nor handler: "No changes needed"
\*   an import, a handler with a short body, and a handler that names
\*   rateLimitResponse: only the import is added
TreeContents == {
    <<Tok("imp"), Tok("hdl"), Tok("txt")>>,
    <<Tok("hdl"), Tok("txt")>>,
    <<Tok("txt")>>,
    <<Tok("imp"), Tok("hdl"), Tok("txt"), Tok("hdl"), Tok("rlr")>> }

\* A tree of one to MaxFiles route files
Init ==
    /\ route_path = ""
    /\ config = ""
    /\ \E tree \in SUBSET CandidateFiles :
          /\ Cardinality(tree) \in 1..MaxFiles
          /\ \E fs \in [tree -> TreeContents] : InitRun(fs)

\* The file of the one-file tree
TheFile == PROJECT_ROOT \o "/app/api/tickets/[id]/comments/route.ts"

\* A tree of one route file, of any content of at most MaxLen tokens
InitFile ==
    /\ route_path = ""
    /\ config = ""
    /\ \E fs \in [{TheFile} -> Contents(MaxLen)] : InitRun(fs)

(***************************************************************************)
(* main() and apply_rate_limiting(), one action per file operation.        *)
(***************************************************************************)

\* The orders rglob may yield the files of the tree in
Discoveries(tree) ==
    {sq \in [1..Cardinality(tree) -> tree] :
        \A i, j \in DOMAIN sq : i # j => sq[i] # sq[j]}

\* A faulty OnException: the handler of lines 120-121 is missing, and the
\* exception leaves apply_rate_limiting.
OnExceptionEscapes ==
    [success |-> FALSE, message |-> "Error: I/O fault", escapes |-> TRUE]

\* Lines 120-121: any exception of the body becomes a returned status.
OnException ==
    [success |-> FALSE, message |-> "Error: I/O fault", escapes |-> FALSE]

\* A return statement of apply_rate_limiting
Return(success, message) ==
    [success |-> success, message |-> message, escapes |-> FALSE]

\* Lines 140-148: the branch of main that counts an error
IsError(res) == ~res.success /\ ~Contains(res.message, "Already updated")

\* Lines 136-148: main takes the result of apply_rate_limiting(p), counts it
\* and goes on to the next file.  An exception that leaves the call ends main.
Finish(p, res) ==
    /\ pc' = "read"
    /\ content' = <<>>
    /\ raised' = IF res = OnException THEN raised \cup {p} ELSE raised
    /\ IF res.escapes
       THEN /\ phase' = "crashed"
            /\ UNCHANGED <<idx, status, updated, skipped, errors>>
       ELSE /\ phase' = phase
            /\ idx' = idx + 1
            /\ status' = [status EXCEPT ![p] = res.message]
            /\ updated' = IF res.success THEN updated + 1 ELSE updated
            /\ skipped' = IF ~res.success /\ ~IsError(res) THEN skipped + 1 ELSE skipped
            /\ errors' = IF IsError(res) THEN errors + 1 ELSE errors

\* Lines 124-135: a run of the script starts: the files are discovered in
\* some order (route_files, used only through sorted() and len()), the
\* counters reset, the list sorted.
Start ==
    /\ phase \in {"idle", "done", "killed"}
    /\ run < MaxRuns
    /\ \E route_files \in Discoveries(DOMAIN files) :
          order' = Sorted(route_files)
    /\ phase' = "loop"
    /\ idx' = 1
    /\ pc' = "read"
    /\ content' = <<>>
    /\ updated' = 0
    /\ skipped' = 0
    /\ errors' = 0
    /\ run' = run + 1
    /\ preRun' = files
    /\ status' = [p \in DOMAIN files |-> ""]
    /\ processed' = <<>>
    /\ raised' = {}
    /\ preBak' = backups
    /\ prevStatus' = status
    /\ UNCHANGED <<files, backups, orig, wroteOver, route_path, config>>

\* Lines 64-107 and 118: the file is read and patched in memory.  Either the
\* read raises, or the call returns without a change, or it goes on to the
\* backup.
Read ==
    /\ phase = "loop"
    /\ idx <= Len(order)
    /\ pc = "read"
    /\ LET p == order[idx]
           r == Patch(files[p], rate_limit_config[p])
       IN  /\ processed' = Append(processed, p)
           /\ \E fault \in BOOLEAN :
                 IF fault THEN Finish(p, OnException)
                 ELSE IF r.modified
                 THEN /\ pc' = "backup"
                      /\ content' = r.content
                      /\ UNCHANGED <<phase, idx, status, updated, skipped,
                                     errors, raised>>
                 ELSE Finish(p, Return(FALSE, r.message))
    /\ UNCHANGED <<files, backups, order, run, orig, preRun, wroteOver, preBak,
                   prevStatus, route_path, config>>

\* A faulty BackupContent: the backup is written from the patched content.
BackupContentPatched(p) == content

\* Line 112: what the backup gets, file_path.read_text()
BackupContent(p) == files[p]

\* Lines 111-112: the backup is written, or reading or writing raises.
Backup ==
    /\ phase = "loop"
    /\ pc = "backup"
    /\ LET p == order[idx]
       IN  \E fault \in BOOLEAN :
              IF fault
              THEN /\ Finish(p, OnException)
                   /\ UNCHANGED backups
              ELSE /\ backups' = [backups EXCEPT ![p] = <<BackupContent(p)>>]
                   /\ pc' = "write"
                   /\ UNCHANGED <<phase, idx, status, updated, skipped, errors,
                                  raised, content>>
    /\ UNCHANGED <<files, order, run, orig, preRun, processed, wroteOver,
                   preBak, prevStatus, route_path, config>>

\* Lines 115-116: the file is overwritten, or writing raises.
Write ==
    /\ phase = "loop"
    /\ pc = "write"
    /\ LET p == order[idx]
       IN  \E fault \in BOOLEAN :
              IF fault
              THEN /\ Finish(p, OnException)
                   /\ UNCHANGED <<files, wroteOver>>
              ELSE /\ files' = [files EXCEPT ![p] = content]
                   /\ wroteOver' = [wroteOver EXCEPT ![p] = @ + 1]
                   /\ Finish(p, Return(TRUE, "Updated (" \o rate_limit_config[p] \o ")"))
    /\ UNCHANGED <<backups, order, run, orig, preRun, processed, preBak,
                   prevStatus, route_path, config>>

\* Lines 150-154: the loop is over, the summary is printed, main returns.
Report ==
    /\ phase = "loop"
    /\ idx > Len(order)
    /\ phase' = "done"
    /\ UNCHANGED <<files, backups, order, idx, pc, content, updated, skipped,
                   errors, run, orig, preRun, status, processed, raised,
                   wroteOver, preBak, prevStatus, route_path, config>>

\* The process is killed between two file operations.
Kill ==
    /\ phase = "loop"
    /\ phase' = "killed"
    /\ UNCHANGED <<files, backups, order, idx, pc, content, updated, skipped,
                   errors, run, orig, preRun, status, processed, raised,
                   wroteOver, preBak, prevStatus, route_path, config>>

Step == Start \/ Read \/ Backup \/ Write \/ Report

Next == Step \/ Kill

Spec == Init /\ [][Next]_vars

\* The script is single-threaded and synchronous: while the process lives it
\* takes its next step.  Nothing is assumed of Kill.
FairSpec == Spec /\ WF_vars(Step)

SpecFile == InitFile /\ [][Next]_vars

(***************************************************************************)
(* The selector alone: a call of get_rate_limit_config on a route path.    *)
(***************************************************************************)

Segments == {"api", "auth", "login", "reset-password", "tickets", "123",
             "comments"}

\* "/s1/s2/.../sn"
RECURSIVE Join(_)
Join(segs) == IF segs = <<>> THEN "" ELSE "/" \o Head(segs) \o Join(Tail(segs))

\* The route paths of at most n segments, with and without a final "/"
RoutePaths(n) ==
    LET seqs == UNION {[1..k -> Segments] : k \in 0..n}
    IN  {Join(sq) : sq \in seqs} \cup {Join(sq) \o "/" : sq \in seqs}

InitSelect ==
    /\ route_path \in RoutePaths(MaxSegs)
    /\ config = ""
    /\ InitRun(<<>>)

\* Lines 54-59
Select ==
    /\ config = ""
    /\ config' = get_rate_limit_config(route_path)
    /\ UNCHANGED <<route_path, runvars>>

SpecSelect == InitSelect /\ [][Select]_vars

(***************************************************************************)
(* Properties.                                                             *)
(***************************************************************************)

IsUpdated(message) == IsAt(message, "Updated", 1)
IsErrorStatus(message) == IsAt(message, "Error", 1)

\* The file the run is at, if it is at one
Current == IF phase \in {"loop", "killed", "crashed"} /\ idx \in DOMAIN order
           THEN {order[idx]} ELSE {}

\* ---- C1 ----------------------------------------------------------------

\* In the run before this one the call on p returned without raising.
AppliedBefore(p) ==
    run >= 2 /\ prevStatus[p] # "" /\ ~IsErrorStatus(prevStatus[p])

\* In this run the call on p returned without raising.
AppliedNow(p) == status[p] # "" /\ ~IsErrorStatus(status[p])

\* C1 as stated: whenever apply_rate_limiting has been applied to a file twice
\* in a row, the content after the second application is the content after
\* the first, and the second application reports "Already updated".
C1_SecondReportsAlreadyUpdated ==
    \A p \in DOMAIN files :
        (AppliedBefore(p) /\ AppliedNow(p)) =>
            /\ files[p] = preRun[p]
            /\ status[p] = "Already updated"

\* C1 (amended): once apply_rate_limiting has been applied to a file, the next
\* application never gets to the backup, leaves the content as the first
\* application left it, and reports "Already updated" if the content holds
\* the import marker and "No changes needed" if it does not.
C1_SecondApplicationChangesNothing ==
    \A p \in DOMAIN files :
        AppliedBefore(p) =>
            /\ files[p] = preRun[p]
            /\ p \in Current => pc = "read"
            /\ AppliedNow(p) =>
                  status[p] = IF HasMarker(files[p]) THEN "Already updated"
                              ELSE "No changes needed"

\* A file was updated by one application and found "Already updated" by the
\* next, its content unchanged.
C1_Witness ==
    \E p \in DOMAIN files :
        /\ run >= 2
        /\ IsUpdated(prevStatus[p])
        /\ status[p] = "Already updated"
        /\ files[p] = preRun[p]
        /\ files[p] # orig[p]

\* ---- C2 ----------------------------------------------------------------

\* The positions of s at which the literal occurs
Occ(s, lit) == {i \in 1..Len(s) : IsAt(s, lit, i)}

\* The pattern (one literal, or two joined by ".*") matches somewhere in s.
MatchesAnywhere(pattern, s) ==
    IF Len(pattern) = 1 THEN Occ(s, pattern[1]) # {}
    ELSE \E i \in Occ(s, pattern[1]) :
            \E j \in Occ(s, pattern[2]) : j >= i + Len(pattern[1])

\* The rules of the table that match s
Matching(s) ==
    {i \in DOMAIN RATE_LIMIT_MAP : MatchesAnywhere(RATE_LIMIT_MAP[i].pattern, s)}

\* C2: get_rate_limit_config returns the token of the earliest-listed rule
\* whose pattern matches anywhere in the path, RATE_LIMITS.DEFAULT exactly when
\* no rule matches, and the ticket-comment policy for
\* "/api/tickets/123/comments".
C2_FirstMatchWins ==
    config # "" =>
        LET M == Matching(route_path)
        IN  /\ M # {} =>
                 \E i \in M : /\ \A j \in M : i <= j
                              /\ config = RATE_LIMIT_MAP[i].config
            /\ (config = DEFAULT) <=> (M = {})
            /\ route_path = "/api/tickets/123/comments" =>
                 config = "RATE_LIMITS.TICKET_COMMENT"

\* The example path was selected for: it matches the comment rule and the
\* later, broader ticket rule, and got the comment policy.
C2_Witness ==
    /\ route_path = "/api/tickets/123/comments"
    /\ config = "RATE_LIMITS.TICKET_COMMENT"
    /\ Cardinality(Matching(route_path)) = 2

\* ---- C3 ----------------------------------------------------------------

\* A step that changes a file's content starts where the file still has its
\* pre-run content and its backup already holds that content.
C3_Overwrite ==
    \A p \in DOMAIN files :
        files'[p] # files[p] =>
            /\ files[p] = preRun[p]
            /\ backups[p] = <<preRun[p]>>
            /\ backups'[p] = backups[p]

\* C3: within a run no file is overwritten unless its backup already exists
\* and holds the file's pre-run content, and every file reported as updated
\* has a backup equal to its pre-run content.
C3_BackupPrecedesOverwrite ==
    /\ [][C3_Overwrite]_vars
    /\ [](\A p \in DOMAIN files :
             IsUpdated(status[p]) =>
                 /\ backups[p] = <<preRun[p]>>
                 /\ files[p] # preRun[p])

\* A file was overwritten and reported as updated; its backup holds the
\* pre-run content.
C3_Witness ==
    \E p \in DOMAIN files :
        /\ IsUpdated(status[p])
        /\ files[p] # preRun[p]
        /\ backups[p] = <<preRun[p]>>

\* ---- C4 ----------------------------------------------------------------

\* The loop runs over all the files of the tree, each once, in path order.
OrderIsSorted ==
    /\ Len(order) = Cardinality(DOMAIN files)
    /\ {order[k] : k \in DOMAIN order} = DOMAIN files
    /\ \A i, j \in DOMAIN order : i < j => PathLess[order[i]][order[j]]

C4_Inv ==
    /\ phase # "crashed"
    /\ phase # "idle" =>
          /\ OrderIsSorted
          /\ processed = SubSeq(order, 1, Len(processed))
          /\ Len(processed) \in {idx - 1, idx}
          /\ \A k \in DOMAIN order : order[k] \in raised => idx > k
          /\ phase = "done" => processed = order

\* C4: whichever files raise, no exception leaves the per-file boundary: the
\* loop goes on to the files after a raising one, every file is processed
\* once, in sorted order, and a run that is not killed reaches the summary.
C4_FailureIsolation ==
    /\ []C4_Inv
    /\ (phase = "loop") ~> (phase \in {"done", "killed"})

\* A run reached the summary although its first file raised; the files after
\* it were processed.
C4_Witness ==
    /\ phase = "done"
    /\ Len(order) >= 2
    /\ order[1] \in raised
    /\ processed = order
    /\ status[order[2]] # ""

\* ---- C5 ----------------------------------------------------------------

\* C5: at the end of a run the error count is the number of files whose
\* processing raised; "No changes needed" is not counted as an error.
C5_ErrorsCountRaisingFiles ==
    phase = "done" => errors = Cardinality(raised)

\* ---- C6 ----------------------------------------------------------------

\* Every guard snippet in c sits right after a handler signature, so no
\* handler has two.
OneGuardPerHandler(c) ==
    \A i \in DOMAIN c : c[i].k = "guard" => (i > 1 /\ IsHandler(c[i - 1]))

\* The import lines of c that import from the limiter module
GuardImports(c) == {i \in DOMAIN c : IsImportLine(c[i]) /\ Info(c[i]).marker}

\* The files the current run has not started on
NotReached ==
    IF phase = "idle" THEN DOMAIN files
    ELSE {order[k] : k \in {n \in DOMAIN order :
                               n > idx \/ (n = idx /\ pc = "read")}}

\* C6: over any sequence of complete or killed runs no handler has more than
\* one inserted guard snippet, no file more than one guard import line, and
\* the files a run has not reached are as they were when it started.
C6_PartialRunSafety ==
    /\ \A p \in DOMAIN files :
          /\ OneGuardPerHandler(files[p])
          /\ Cardinality(GuardImports(files[p])) <= 1
    /\ \A p \in NotReached :
          /\ files[p] = preRun[p]
          /\ backups[p] = preBak[p]

\* A run was killed after it wrote a file's backup and before it overwrote
\* the file; the next run patched the file.
C6_Witness ==
    \E p \in DOMAIN files :
        /\ run >= 2
        /\ prevStatus[p] = ""
        /\ preBak[p] # <<>>
        /\ preRun[p] = orig[p]
        /\ IsUpdated(status[p])
        /\ \E i \in DOMAIN files[p] : files[p][i].k = "guard"

\* ---- C7 ----------------------------------------------------------------

\* The handler at position i of c holds a guard invocation with the policy
\* token cfg: the snippet occurs after the signature and before the next one.
HandlerHasGuard(c, i, cfg) ==
    \E j \in (i + 1)..Len(c) :
        /\ c[j] = Guard(cfg)
        /\ \A m \in (i + 1)..(j - 1) : ~IsHandler(c[m])

\* C7: in every file reported as updated, every detected handler holds a guard
\* invocation with the policy token selected for the file.
C7_EveryHandlerGuarded ==
    \A p \in DOMAIN files :
        IsUpdated(status[p]) =>
            \A i \in DOMAIN files[p] :
                IsHandler(files[p][i]) => HandlerHasGuard(files[p], i, rate_limit_config[p])

\* ---- C8 ----------------------------------------------------------------

\* The import lines of c that import applyRateLimit and RATE_LIMITS from the
\* limiter module
LimiterImports(c) ==
    {i \in GuardImports(c) :
        /\ Contains(KindText[c[i].k], "applyRateLimit")
        /\ Contains(KindText[c[i].k], "RATE_LIMITS")}

\* C8: every file reported as updated has exactly one import line of the
\* limiter module with its two symbols.
C8_UpdatedFileHasImport ==
    \A p \in DOMAIN files :
        IsUpdated(status[p]) => Cardinality(LimiterImports(files[p])) = 1

\* ---- C9 ----------------------------------------------------------------

NoHandlerNoImport(c) == \A i \in DOMAIN c : ~IsHandler(c[i]) /\ ~IsImportLine(c[i])

\* C9: a file without handler signature and without import line is never
\* changed: its processing never gets to the backup, it is never reported as
\* updated, its content stays what it was, and it gets no backup.
C9_NoOpIsNonDestructive ==
    \A p \in DOMAIN files :
        NoHandlerNoImport(orig[p]) =>
            /\ p \in Current => pc = "read"
            /\ ~IsUpdated(status[p])
            /\ files[p] = orig[p]
            /\ backups[p] = <<>>

\* A file of other code only, some of it naming rateLimitResponse, was
\* processed and left alone.
C9_Witness ==
    \E p \in DOMAIN files :
        /\ NoHandlerNoImport(orig[p])
        /\ \E i \in DOMAIN orig[p] : orig[p][i].k = "rlr"
        /\ status[p] = "No changes needed"
        /\ files[p] = orig[p]
        /\ backups[p] = <<>>

\* ---- C10 ---------------------------------------------------------------

\* C10: over any sequence of complete or killed runs a file's content is
\* overwritten at most once, and a backup that exists holds the content the
\* file had before the first run.
C10_BackupHoldsOriginal ==
    \A p \in DOMAIN files :
        /\ wroteOver[p] <= 1
        /\ backups[p] # <<>> => backups[p] = <<orig[p]>>

\* A file without import line was patched by one run, so without the marker,
\* and processed again by the next, which left file and backup alone.
C10_Witness ==
    \E p \in DOMAIN files :
        /\ run >= 2
        /\ IsUpdated(prevStatus[p])
        /\ ~HasMarker(files[p])
        /\ status[p] = "No changes needed"
        /\ wroteOver[p] = 1
        /\ backups[p] = <<orig[p]>>

====
